---- MODULE Spec2Model ----
(***************************************************************************)
(* A model of the giggityflix screenshot service: the pending-request      *)
(* ledger (RedisService), the one-time upload tokens and their blacklist   *)
(* (TokenService), the coordination handlers (ScreenshotService) and the   *)
(* upload route (api/routes.py).                                           *)
(*                                                                         *)
(* Time is counted in minutes.  The two Redis stores are modelled by their *)
(* live keys: a key whose time to live has run out is deleted by the Tick  *)
(* action that passes its expiry.                                          *)
(***************************************************************************)
EXTENDS Integers, Sequences, FiniteSets, TLC

\* ------------------------------------------------------------- bounds
MaxTokens == 2      \* tokens minted in one behaviour
MaxTicks == 1       \* clock advances in one behaviour
MaxFiles == 2       \* files of one upload
MaxStarts == 3      \* consumer threads started in one behaviour
MaxMessages == 2    \* messages polled in one behaviour

\* -------------------------------------------------- program constants
TokenExpireMinutes == 30        \* JWTConfig.token_expire_minutes
BlacklistTtlHours == 24         \* blacklist_token(ttl_hours=24)
PendingRequestTtlHours == 24    \* ServiceConfig.pending_request_ttl_hours

\* ------------------------------------------------------- input domains
Peers == {"p1", "p2"}
Catalogs == {"c1", "c2"}
RequestIds == {"r1", "r2"}
Callers == {"u1", "u2"}
TokenIds == 1..MaxTokens
\* how far the clock may jump in one step: past a token's window, past a day
TickSteps == {TokenExpireMinutes + 1, BlacklistTtlHours * 60}
\* the host's local UTC offset in minutes (UTC-1, UTC, UTC+1)
TzOffsets == {0 - 60, 0, 60}

\* an optional value is a sequence: <<>> for None, <<x>> for x
None == <<>>
Some(x) == <<x>>
\* an absent time (expires_at = None, a key with no time to live)
NoTime == 0 - 1
ALREADY_USED == "already_used"
OTHER_PEER_UPLOADED == "other_peer_uploaded"
EXPIRED == "expired"
TokenBlacklistReason == {ALREADY_USED, OTHER_PEER_UPLOADED, EXPIRED}

\* ------------------------------------------------------------ helpers
RECURSIVE Concat(_)
Concat(ss) == IF ss = <<>> THEN <<>> ELSE Head(ss) \o Concat(Tail(ss))

Range(s) == {s[i] : i \in DOMAIN s}

\* a fixed enumeration of a finite set (the order of a Redis HGETALL reply)
RECURSIVE SetToSeq(_)
SetToSeq(S) ==
  IF S = {} THEN <<>>
  ELSE LET x == CHOOSE y \in S : TRUE IN <<x>> \o SetToSeq(S \ {x})

\* ------------------------------------------------------------- models
PeerWithMedia(peer_id, edge_id, catalog_ids) ==
  [peer_id |-> peer_id, edge_id |-> edge_id, catalog_ids |-> catalog_ids]

ScreenshotRequest(catalog_id, request_id, created_at, expires_at) ==
  [catalog_id |-> catalog_id, request_id |-> request_id,
   requester_service |-> "svc", created_at |-> created_at,
   expires_at |-> expires_at]

TokenPayload(peer_id, catalog_id, request_id, token_id, exp) ==
  [peer_id |-> peer_id, catalog_id |-> catalog_id, request_id |-> request_id,
   token_id |-> token_id, exp |-> exp]

\* ------------------------------------------------------- TokenService
\* A JWT is its claims and whether its signature verifies under the secret.
\* a string that is no JWT at all has wellformed = FALSE.
Jwt(claims, signed) == [claims |-> claims, signed |-> signed, wellformed |-> TRUE]
Garbage ==
  [claims |-> TokenPayload("", "", "", 0, 0), signed |-> FALSE,
   wellformed |-> FALSE]

\* expire = datetime.utcnow() + expires_delta is a naive datetime holding UTC
\* wall time; expire.timestamp() reads a naive datetime as local time, so the
\* epoch value it yields is shifted by the host's UTC offset.
NaiveUtcTimestamp(t, tz) == t - tz

\* Faulty variant: the token_id is derived from what the token is for, so a
\* second token for the same peer and request carries the same id.
create_token_derived_id(peer_id, catalog_id, request_id, token_id, t, tz) ==
  Jwt(TokenPayload(peer_id, catalog_id, request_id,
                   IF peer_id = "p1" THEN 1 ELSE 2,
                   NaiveUtcTimestamp(t + TokenExpireMinutes, tz)), TRUE)

create_token(peer_id, catalog_id, request_id, token_id, t, tz) ==
  LET expire == t + TokenExpireMinutes
  IN  Jwt(TokenPayload(peer_id, catalog_id, request_id, token_id,
                       NaiveUtcTimestamp(expire, tz)), TRUE)

\* jwt.decode: the signature must verify and exp must not lie before now
JWTError == None
jwt_decode(token, t) ==
  IF ~token.wellformed THEN JWTError
  ELSE IF ~token.signed THEN JWTError
  ELSE IF token.claims.exp < t THEN JWTError
  ELSE Some(token.claims)

\* the blacklist: token_id -> None or Some([reason, until])
NoBlacklist == [k \in TokenIds |-> None]
redis_exists(bl, token_id) == token_id \in DOMAIN bl /\ bl[token_id] # None

\* faulty variant: the blacklist is not consulted
validate_token_no_blacklist(token, bl, t) == jwt_decode(token, t)

validate_token(token, bl, t) ==
  LET payload == jwt_decode(token, t)
  IN  IF payload = JWTError THEN None
      ELSE IF redis_exists(bl, payload[1].token_id) THEN None
      ELSE payload

\* faulty variant: SET NX, the first reason stays
blacklist_token_first_wins(bl, token_id, reason, ttl_hours, t) ==
  IF redis_exists(bl, token_id) THEN bl
  ELSE [bl EXCEPT ![token_id] =
          Some([reason |-> reason, until |-> t + ttl_hours * 60])]

\* faulty variant: the time to live is taken in minutes
blacklist_token_minutes(bl, token_id, reason, ttl_hours, t) ==
  [bl EXCEPT ![token_id] = Some([reason |-> reason, until |-> t + ttl_hours])]

\* SETEX: a plain overwrite of value and time to live
blacklist_token(bl, token_id, reason, ttl_hours, t) ==
  [bl EXCEPT ![token_id] =
     Some([reason |-> reason, until |-> t + ttl_hours * 60])]

get_blacklist_reason(bl, token_id) ==
  IF ~redis_exists(bl, token_id) THEN None ELSE Some(bl[token_id][1].reason)

\* ------------------------------------------------------- RedisService
\* the ledger: catalog_id -> hash (request_id -> stored JSON or None), and
\* the time at which the catalog's key expires (NoTime: no time to live)
NoHash == [r \in RequestIds |-> None]
EmptyLedger == [c \in Catalogs |-> NoHash]
NoExpiry == [c \in Catalogs |-> NoTime]

model_dump_json(request) ==
  <<request.catalog_id, request.request_id, request.requester_service,
    request.created_at, request.expires_at>>
\* faulty variant: expires_at is not read back
parse_request_no_expiry(json) ==
  [catalog_id |-> json[1], request_id |-> json[2],
   requester_service |-> json[3], created_at |-> json[4],
   expires_at |-> NoTime]

parse_request(json) ==
  [catalog_id |-> json[1], request_id |-> json[2],
   requester_service |-> json[3], created_at |-> json[4],
   expires_at |-> json[5]]

with_expiration(request) ==
  IF request.expires_at = NoTime
  THEN [request EXCEPT !.expires_at =
          request.created_at + PendingRequestTtlHours * 60]
  ELSE request

\* faulty variant: the entry is stored whatever its remaining time to live
add_pending_request_unguarded(hashes, expiries, request, t) ==
  LET req == with_expiration(request)
  IN  << [hashes EXCEPT ![req.catalog_id][req.request_id] =
            model_dump_json(req)],
         [expiries EXCEPT ![req.catalog_id] = req.expires_at] >>

\* faulty variant: the time to live is added to the one the bucket has
add_pending_request_extending(hashes, expiries, request, t) ==
  LET req == with_expiration(request)
      ttl_seconds == req.expires_at - t
  IN  IF ttl_seconds > 0
      THEN << [hashes EXCEPT ![req.catalog_id][req.request_id] =
                 model_dump_json(req)],
              [expiries EXCEPT ![req.catalog_id] =
                 (IF @ = NoTime THEN t ELSE @) + ttl_seconds] >>
      ELSE << hashes, expiries >>

\* returns the new <<hashes, expiries>>
add_pending_request(hashes, expiries, request, t) ==
  LET req == with_expiration(request)
      ttl_seconds == req.expires_at - t
  IN  IF ttl_seconds > 0
      THEN << [hashes EXCEPT ![req.catalog_id][req.request_id] =
                 model_dump_json(req)],
              [expiries EXCEPT ![req.catalog_id] = t + ttl_seconds] >>
      ELSE << hashes, expiries >>

get_pending_requests(hashes, catalog_id) ==
  LET fields == {r \in RequestIds : hashes[catalog_id][r] # None}
      order == SetToSeq(fields)
  IN  [i \in 1..Len(order) |-> parse_request(hashes[catalog_id][order[i]])]

\* faulty variant: HDEL names a field the hash does not hold
remove_pending_request_wrong_field(hashes, expiries, catalog_id, request_id) ==
  << hashes, expiries >>

\* faulty variant: the whole bucket is deleted
remove_pending_request_whole_bucket(hashes, expiries, catalog_id, request_id) ==
  << [hashes EXCEPT ![catalog_id] = NoHash],
     [expiries EXCEPT ![catalog_id] = NoTime] >>

\* HDEL; Redis deletes a hash (and its time to live) with its last field
remove_pending_request(hashes, expiries, catalog_id, request_id) ==
  LET h == [hashes EXCEPT ![catalog_id][request_id] = None]
  IN  << h,
         IF h[catalog_id] = NoHash
         THEN [expiries EXCEPT ![catalog_id] = NoTime] ELSE expiries >>

\* faulty variant: KEYS is given the prefix without the wildcard
get_all_pending_catalog_ids_no_wildcard(hashes) == {}

\* KEYS prefix*: the keys of the hashes that hold a field
get_all_pending_catalog_ids(hashes) ==
  {c \in Catalogs : hashes[c] # NoHash}

\* -------------------------------------------------------------- state
VARIABLES
  now,        \* the clock, in minutes
  ticks,      \* how often the clock has advanced
  tz,         \* the host's UTC offset, in minutes
  blacklist,  \* Redis: token blacklist
  ledger,     \* Redis: pending-request hashes, by catalog
  ledgerTtl,  \* Redis: expiry of each catalog's hash
  issued,     \* every token minted so far, in order (token_id = position)
  invites,    \* every POST made to the edge service, in order
  published,  \* every screenshots.completed message handed to the producer
  storage,    \* MinIO: the names of the objects stored
  callers,    \* the upload requests in flight, by caller
  adds,       \* the add_pending_request calls in flight, by service instance
  kafka,      \* KafkaService: running flag, consumers made, threads started
  lastOp      \* the handler or service call that ran last, and how it ended

vars == <<now, ticks, tz, blacklist, ledger, ledgerTtl, issued, invites,
          published, storage, callers, adds, kafka, lastOp>>

\* the service instances that share the Redis ledger
Instances == {"i1", "i2"}
NoAdd == [pc |-> "idle", request |-> None, ttl_seconds |-> 0]

\* KafkaService.__init__: not running, no consumer, no thread.  consumer and
\* consumer_thread are positions in `consumers` and `threads`, 0 for None.
\* polled counts the messages poll has returned, errors those among them
\* that ended in a logged error, calls lists the handlers invoked.
NoKafka ==
  [running |-> FALSE, consumer |-> 0, consumer_thread |-> 0,
   consumers |-> <<>>, threads |-> <<>>,
   polled |-> 0, errors |-> 0, calls |-> <<>>]

Idle == [pc |-> "idle", resp |-> "", payload |-> None, files |-> <<>>,
         todo |-> <<>>, urls |-> <<>>]

\* the services as constructed, on a host whose UTC offset is one of `zones`
Start(zones) ==
  /\ now = 0
  /\ ticks = 0
  /\ tz \in zones
  /\ blacklist = NoBlacklist
  /\ ledger = EmptyLedger
  /\ ledgerTtl = NoExpiry
  /\ issued = <<>>
  /\ invites = <<>>
  /\ published = <<>>
  /\ storage = {}
  /\ callers = [u \in Callers |-> Idle]
  /\ adds = [i \in Instances |-> NoAdd]
  /\ kafka = NoKafka
  /\ lastOp = "init"

Init == Start({0})
InitAnyZone == Start(TzOffsets)

\* --------------------------------------------------- ScreenshotService
\* the environment's answers
\* the edge's answers to the POSTs of one handler run: all 202, or the first
\* one fails (another status, or the POST raises) and the others are 202
EdgeModes == {"202", "first_failed"}
edge_status(mode, i) == IF mode = "first_failed" /\ i = 1 THEN "failed" ELSE "202"
UploadOutcomes == {"ok", "upload_failed", "url_failed"}

\* GET {peer-registry}/api/peers/catalog/{catalog_id}
PeerLists(catalog_id) ==
  { <<>>,
    << PeerWithMedia("p1", "e1", <<catalog_id>>) >>,
    << PeerWithMedia("p1", "e1", <<"c1", "c2">>) >>,
    << PeerWithMedia("p1", "e1", <<catalog_id>>),
       PeerWithMedia("p2", "e2", <<catalog_id>>) >> }
\* the GET raises, or is answered 500 (with some body), or 200 with a list
DirectoryReplies(catalog_id) ==
  { [status |-> "raised", peers |-> <<>>],
    [status |-> "500",
     peers |-> << PeerWithMedia("p1", "e1", <<catalog_id>>) >>] }
  \cup { [status |-> "200", peers |-> ps] : ps \in PeerLists(catalog_id) }

\* the peer-available events
PeerOffers ==
  { PeerWithMedia(p, "e1", cs) :
      p \in Peers, cs \in { <<"c1">>, <<"c2", "c1">>, <<"c2", "c2">> } }

\* the screenshots-requested events that can arrive at time t: without
\* expires_at, and already expired
RequestEvents(t) ==
  { ScreenshotRequest(c, r, t, e) :
      c \in Catalogs, r \in RequestIds, e \in {NoTime, t} }

\* faulty variant: the body is read whatever the status
_get_peers_any_status(reply) ==
  IF reply.status = "raised" THEN <<>> ELSE reply.peers

_get_peers_with_catalog_id(reply) ==
  IF reply.status = "raised" THEN <<>>
  ELSE IF reply.status = "200" THEN reply.peers
  ELSE <<>>

\* the (peer, catalog, request) triples one call mints a token and sends an
\* invite for, in order
_request_screenshots_from_peer(peer, request) ==
  [i \in 1..Len(peer.catalog_ids) |->
     [peer_id |-> peer.peer_id, edge_id |-> peer.edge_id,
      catalog_id |-> peer.catalog_ids[i], request_id |-> request.request_id]]

\* handle_screenshot_request, after the request is stored
request_invites(peers, request) ==
  Concat([i \in 1..Len(peers) |->
            _request_screenshots_from_peer(peers[i], request)])

\* faulty variant: the offer is passed on whole, not one catalog at a time
peer_available_invites_whole_peer(peer, catalog_ids, hashes) ==
  Concat([i \in 1..Len(catalog_ids) |->
    LET pending_requests == get_pending_requests(hashes, catalog_ids[i])
    IN  Concat([j \in 1..Len(pending_requests) |->
                  _request_screenshots_from_peer(peer, pending_requests[j])])])

\* handle_peer_available over the catalog_ids it gets to
peer_available_invites(peer, catalog_ids, hashes) ==
  Concat([i \in 1..Len(catalog_ids) |->
    LET catalog_id == catalog_ids[i]
        pending_requests == get_pending_requests(hashes, catalog_id)
        single_catalog_peer ==
          PeerWithMedia(peer.peer_id, peer.edge_id, <<catalog_id>>)
    IN  Concat([j \in 1..Len(pending_requests) |->
                  _request_screenshots_from_peer(single_catalog_peer,
                                                 pending_requests[j])])])

\* the tokens minted for `targets`, the first with token_id `first`
minted_tokens(targets, first, t, zone) ==
  [i \in 1..Len(targets) |->
     create_token(targets[i].peer_id, targets[i].catalog_id,
                  targets[i].request_id, first + i - 1, t, zone)]

\* _send_screenshot_request_to_edge, one POST per token
sent_invites(targets, first, mode, via) ==
  [i \in 1..Len(targets) |->
     [edge_id |-> targets[i].edge_id, peer_id |-> targets[i].peer_id,
      catalog_id |-> targets[i].catalog_id, token_id |-> first + i - 1,
      screenshot_upload_url |-> <<"/api/screenshot", targets[i].catalog_id>>,
      status |-> edge_status(mode, i), via |-> via]]

\* the ways one run's invites can fail: as EdgeModes, or create_token
\* raises at its first call
DispatchModes == EdgeModes \cup {"token_failed"}

\* faulty variant: the exception of create_token ends the handler
dispatched_aborting(targets, firstCall, mode) ==
  IF mode = "token_failed" THEN <<>> ELSE targets

\* the targets a run gets to: an exception of create_token ends the call of
\* _request_screenshots_from_peer it is raised in (the run's first, with
\* firstCall targets), which logs it, and the handler goes on
dispatched(targets, firstCall, mode) ==
  IF mode = "token_failed"
  THEN SubSeq(targets, firstCall + 1, Len(targets))
  ELSE targets

MintAndInvite(targets, mode, via) ==
  /\ Len(issued) + Len(targets) <= MaxTokens
  /\ issued' = issued \o minted_tokens(targets, Len(issued) + 1, now, tz)
  /\ invites' = invites \o sent_invites(targets, Len(issued) + 1, mode, via)

\* Faulty variant: a request for which no peer is found is answered at once
\* with a completion that carries no URL.
HandleScreenshotRequest_publishing(request, store, reply, mode) ==
  IF store = "down"
  THEN /\ lastOp' = "request:raised"
       /\ UNCHANGED <<adds, kafka, now, ticks, tz, blacklist, ledger, ledgerTtl, issued,
                      invites, published, storage, callers>>
  ELSE LET added == add_pending_request(ledger, ledgerTtl, request, now)
           peers == _get_peers_with_catalog_id(reply)
       IN  /\ lastOp' = IF peers = <<>> THEN "request:no_peers" ELSE "request:peers"
           /\ ledger' = added[1]
           /\ ledgerTtl' = added[2]
           /\ MintAndInvite(dispatched(request_invites(peers, request),
                  IF peers = <<>> THEN 0 ELSE Len(peers[1].catalog_ids), mode),
                mode, "request")
           /\ published' = IF peers # <<>> THEN published
                ELSE Append(published,
                       [message |-> [catalog_id |-> request.catalog_id,
                                     request_id |-> request.request_id,
                                     screenshot_urls |-> <<>>,
                                     status |-> "completed"],
                        token_id |-> 0])
           /\ UNCHANGED <<adds, kafka, now, ticks, tz, blacklist, storage, callers>>

HandleScreenshotRequest(request, store, reply, mode) ==
  IF store = "down"
  THEN \* add_pending_request raises: nothing else runs
       /\ lastOp' = "request:raised"
       /\ UNCHANGED <<adds, kafka, now, ticks, tz, blacklist, ledger, ledgerTtl, issued,
                      invites, published, storage, callers>>
  ELSE LET added == add_pending_request(ledger, ledgerTtl, request, now)
           peers == _get_peers_with_catalog_id(reply)
       IN  /\ lastOp' = IF peers = <<>> THEN "request:no_peers"
                        ELSE "request:peers"
           /\ ledger' = added[1]
           /\ ledgerTtl' = added[2]
           /\ MintAndInvite(
                dispatched(request_invites(peers, request),
                           IF peers = <<>> THEN 0
                           ELSE Len(peers[1].catalog_ids), mode),
                mode, "request")
           /\ UNCHANGED <<adds, kafka, now, ticks, tz, blacklist, published, storage,
                          callers>>

\* Faulty variant: the ledger error of one catalog_id is swallowed and the
\* loop goes on with the catalog_ids after it.
HandlePeerAvailable_skipping(peer, failAt, mode) ==
  LET reached == IF failAt = 0 THEN peer.catalog_ids
                 ELSE SubSeq(peer.catalog_ids, 1, failAt - 1)
                      \o SubSeq(peer.catalog_ids, failAt + 1, Len(peer.catalog_ids))
  IN  /\ lastOp' = IF failAt = 0 THEN "peer_available:ok" ELSE "peer_available:raised"
      /\ MintAndInvite(dispatched(peer_available_invites(peer, reached, ledger), 1, mode),
                       mode, "peer_available")
      /\ UNCHANGED <<adds, kafka, now, ticks, tz, blacklist, ledger, ledgerTtl, published, storage, callers>>

\* failAt = k > 0: get_pending_requests raises for the k-th catalog_id
HandlePeerAvailable(peer, failAt, mode) ==
  LET reached == IF failAt = 0 THEN peer.catalog_ids
                 ELSE SubSeq(peer.catalog_ids, 1, failAt - 1)
  IN  /\ lastOp' = IF failAt = 0 THEN "peer_available:ok"
                   ELSE "peer_available:raised"
      /\ MintAndInvite(
           dispatched(peer_available_invites(peer, reached, ledger), 1, mode),
           mode, "peer_available")
      /\ UNCHANGED <<adds, kafka, now, ticks, tz, blacklist, ledger, ledgerTtl, published,
                     storage, callers>>

\* ------------------------------------------------------------- routes
\* the tokens a client can present: the minted ones, a minted one with its
\* signature broken, and a string that is no JWT
Presentable ==
  Range(issued) \cup {[tok EXCEPT !.signed = FALSE] : tok \in Range(issued)}
  \cup {Garbage}

\* Faulty variant: the URL's catalog_id is not compared with the token's.
route_accepts_any_catalog(bearer, token, catalog_id, bl, t) ==
  IF ~bearer THEN None ELSE validate_token(token, bl, t)

\* routes.validate_token followed by upload_screenshots' catalog check:
\* Some(payload) when process_screenshot_upload is reached
route_accepts(bearer, token, catalog_id, bl, t) ==
  IF ~bearer THEN None
  ELSE LET token_payload == validate_token(token, bl, t)
       IN  IF token_payload = None THEN None
           ELSE IF catalog_id # token_payload[1].catalog_id THEN None
           ELSE token_payload

RouteValidate(u, bearer, token, catalog_id, n) ==
  /\ callers[u].pc = "idle"
  /\ LET accepted == route_accepts(bearer, token, catalog_id, blacklist, now)
     IN  callers' = [callers EXCEPT ![u] =
           IF accepted = None THEN Idle
           ELSE [Idle EXCEPT !.pc = "validated", !.payload = accepted,
                             !.files = [i \in 1..n |-> i],
                             !.todo = [i \in 1..n |-> i]]]
  /\ UNCHANGED <<adds, kafka, now, ticks, tz, blacklist, ledger, ledgerTtl, issued,
                 invites, published, storage, lastOp>>

\* jwt.decode(token, options={"verify_signature": False}) in the dependency
\* validate_token of routes.py.  jose's decode takes the key as a required
\* positional argument, so the call as written raises TypeError, which the
\* surrounding `except Exception: pass` swallows ("type_error").  The unit
\* test replaces jwt.decode by a stub that returns the claims ("claims");
\* both outcomes are followed.
UnverifiedDecodes == {"type_error", "claims"}
unverified_token_id(token, decode) ==
  IF decode = "type_error" \/ ~token.wellformed THEN None
  ELSE Some(token.claims.token_id)

\* what the dependency does once the token service has returned None: it
\* RETURNS a JSONResponse for the two blacklist reasons and raises
\* HTTPException(401) otherwise
rejection(token, bl, decode) ==
  LET token_id == unverified_token_id(token, decode)
      reason == IF token_id = None THEN None
                ELSE get_blacklist_reason(bl, token_id[1])
  IN  IF reason = Some(ALREADY_USED)
      THEN [returned |-> TRUE, response |-> "403 Token has already been used"]
      ELSE IF reason = Some(OTHER_PEER_UPLOADED)
      THEN [returned |-> TRUE, response |-> "403 Screenshots already uploaded"]
      ELSE [returned |-> FALSE, response |-> "401 Invalid or expired token"]

\* the response of POST /screenshot/{catalog_id} to an upload that does not
\* reach process_screenshot_upload.  A value the dependency returns is
\* handed to upload_screenshots as token_payload; a JSONResponse has no
\* catalog_id, so the endpoint's first statement raises AttributeError and
\* the framework answers 500.
route_response(bearer, token, catalog_id, bl, t, decode) ==
  IF ~bearer THEN "401 Invalid authorization header"
  ELSE IF validate_token(token, bl, t) = None
  THEN IF rejection(token, bl, decode).returned
       THEN "500 Internal Server Error"
       ELSE rejection(token, bl, decode).response
  ELSE "400 Catalog ID in URL does not match token"

\* an upload request of caller u that the route turns away
RouteReject(u, bearer, token, catalog_id, decode) ==
  /\ callers[u].pc = "idle"
  /\ route_accepts(bearer, token, catalog_id, blacklist, now) = None
  /\ callers' = [callers EXCEPT
        ![u].pc = "rejected",
        ![u].resp = route_response(bearer, token, catalog_id, blacklist, now,
                                   decode)]
  /\ UNCHANGED <<adds, kafka, now, ticks, tz, blacklist, ledger, ledgerTtl, issued,
                 invites, published, storage, lastOp>>

\* faulty variant: the upload starts without the token being blacklisted
ProcessBlacklist_skipped(u) ==
  /\ callers[u].pc = "validated"
  /\ callers' = [callers EXCEPT ![u].pc = "uploading"]
  /\ UNCHANGED <<adds, kafka, now, ticks, tz, blacklist, ledger, ledgerTtl, issued,
                 invites, published, storage, lastOp>>

\* process_screenshot_upload, first statement
ProcessBlacklist(u) ==
  /\ callers[u].pc = "validated"
  /\ blacklist' = blacklist_token(blacklist, callers[u].payload[1].token_id,
                                  ALREADY_USED, BlacklistTtlHours, now)
  /\ callers' = [callers EXCEPT ![u].pc = "uploading"]
  /\ UNCHANGED <<adds, kafka, now, ticks, tz, ledger, ledgerTtl, issued, invites,
                 published, storage, lastOp>>

\* upload_screenshot names the object {catalog_id}/{uuid4}.jpg; the fresh
\* uuid is the pair (upload request, file)
object_name(catalog_id, u, file) == <<catalog_id, u, file>>
get_screenshot_url(name) == <<"url", name>>

\* faulty variant: a failed file ends the loop
ProcessUpload_aborting(u, outcome) ==
  LET me == callers[u]
      name == object_name(me.payload[1].catalog_id, u, Head(me.todo))
  IN  /\ me.pc = "uploading"
      /\ me.todo # <<>>
      /\ storage' = IF outcome = "upload_failed" THEN storage
                    ELSE storage \cup {name}
      /\ callers' = [callers EXCEPT
           ![u].todo = IF outcome = "ok" THEN Tail(me.todo) ELSE <<>>,
           ![u].urls = IF outcome = "ok"
                       THEN Append(me.urls, get_screenshot_url(name))
                       ELSE me.urls]
      /\ UNCHANGED <<adds, kafka, now, ticks, tz, blacklist, ledger, ledgerTtl, issued,
                     invites, published, lastOp>>

\* one round of the upload loop
ProcessUpload(u, outcome) ==
  LET me == callers[u]
      name == object_name(me.payload[1].catalog_id, u, Head(me.todo))
  IN  /\ me.pc = "uploading"
      /\ me.todo # <<>>
      /\ storage' = IF outcome = "upload_failed" THEN storage
                    ELSE storage \cup {name}
      /\ callers' = [callers EXCEPT
           ![u].todo = Tail(me.todo),
           ![u].urls = IF outcome = "ok"
                       THEN Append(me.urls, get_screenshot_url(name))
                       ELSE me.urls]
      /\ UNCHANGED <<adds, kafka, now, ticks, tz, blacklist, ledger, ledgerTtl, issued,
                     invites, published, lastOp>>

\* the registry is asked for the catalog's peers and every other peer is
\* logged; no token_id is looked up and nothing is written
_blacklist_other_tokens(bl, token_payload, reply) ==
  bl

\* KafkaService.publish_screenshots_completed: the message
publish_screenshots_completed(catalog_id, request_id, screenshot_urls) ==
  [catalog_id |-> catalog_id, request_id |-> request_id,
   screenshot_urls |-> screenshot_urls, status |-> "completed"]

\* Faulty variant: an upload that stored no file ends in an error, after
\* the token was blacklisted, with the request left pending and unanswered.
ProcessFinish_requires_urls(u, reply) ==
  LET me == callers[u]
      token_payload == me.payload[1]
      removed == remove_pending_request(ledger, ledgerTtl,
                   token_payload.catalog_id, token_payload.request_id)
  IN  /\ me.pc = "uploading"
      /\ me.todo = <<>>
      /\ blacklist' = _blacklist_other_tokens(blacklist, token_payload, reply)
      /\ ledger' = IF me.urls = <<>> THEN ledger ELSE removed[1]
      /\ ledgerTtl' = IF me.urls = <<>> THEN ledgerTtl ELSE removed[2]
      /\ published' = IF me.urls = <<>> THEN published
           ELSE Append(published,
                  [message |-> publish_screenshots_completed(
                                 token_payload.catalog_id,
                                 token_payload.request_id, me.urls),
                   token_id |-> token_payload.token_id])
      /\ callers' = [callers EXCEPT
           ![u].pc = "done",
           ![u].resp = IF me.urls = <<>> THEN "500" ELSE "200"]
      /\ UNCHANGED <<adds, kafka, now, ticks, tz, issued, invites, storage,
                     lastOp>>

\* process_screenshot_upload after the upload loop; `published` keeps, with
\* each message, the token_id whose redemption sent it
ProcessFinish(u, reply) ==
  LET me == callers[u]
      token_payload == me.payload[1]
      removed == remove_pending_request(ledger, ledgerTtl,
                   token_payload.catalog_id, token_payload.request_id)
  IN  /\ me.pc = "uploading"
      /\ me.todo = <<>>
      /\ blacklist' = _blacklist_other_tokens(blacklist, token_payload, reply)
      /\ ledger' = removed[1]
      /\ ledgerTtl' = removed[2]
      /\ published' = Append(published,
           [message |-> publish_screenshots_completed(
                          token_payload.catalog_id, token_payload.request_id,
                          me.urls),
            token_id |-> token_payload.token_id])
      /\ callers' = [callers EXCEPT ![u].pc = "done", ![u].resp = "200"]
      /\ UNCHANGED <<adds, kafka, now, ticks, tz, issued, invites, storage, lastOp>>

\* process_screenshot_upload after the upload loop when the producer fails:
\* _publish_message catches every exception of produce and flush and only
\* logs it, so the upload returns as if the completion had gone out
ProcessFinishPublishFailed(u, reply) ==
  LET me == callers[u]
      token_payload == me.payload[1]
      removed == remove_pending_request(ledger, ledgerTtl,
                   token_payload.catalog_id, token_payload.request_id)
  IN  /\ me.pc = "uploading"
      /\ me.todo = <<>>
      /\ blacklist' = _blacklist_other_tokens(blacklist, token_payload, reply)
      /\ ledger' = removed[1]
      /\ ledgerTtl' = removed[2]
      /\ callers' = [callers EXCEPT ![u].pc = "done", ![u].resp = "200"]
      /\ UNCHANGED <<adds, kafka, now, ticks, tz, issued, invites, published,
                     storage, lastOp>>

\* ---------------------------------------------------------------- time
\* the clock advances by d minutes; Redis drops the keys whose time to live
\* has run out.  No upload request stays in flight for a day.
Tick(d) ==
  /\ ticks < MaxTicks
  /\ d >= BlacklistTtlHours * 60 =>
       \A u \in Callers : callers[u].pc \in {"idle", "done"}
  /\ now' = now + d
  /\ ticks' = ticks + 1
  /\ blacklist' = [k \in TokenIds |->
       IF blacklist[k] # None /\ blacklist[k][1].until <= now + d
       THEN None ELSE blacklist[k]]
  /\ ledger' = [c \in Catalogs |->
       IF ledgerTtl[c] # NoTime /\ ledgerTtl[c] <= now + d
       THEN NoHash ELSE ledger[c]]
  /\ ledgerTtl' = [c \in Catalogs |->
       IF ledgerTtl[c] # NoTime /\ ledgerTtl[c] <= now + d
       THEN NoTime ELSE ledgerTtl[c]]
  /\ UNCHANGED <<adds, kafka, tz, issued, invites, published, storage, callers, lastOp>>

\* ------------------------------------------------------ specifications
\* the events of one request: it arrives, with no peer known or with two,
\* and peers that hold its catalog come up
OneRequest ==
  \/ \E peers \in { <<>>, << PeerWithMedia("p1", "e1", <<"c1">>),
                             PeerWithMedia("p2", "e2", <<"c1">>) >> } :
       HandleScreenshotRequest(ScreenshotRequest("c1", "r1", now, NoTime),
                               "ok", [status |-> "200", peers |-> peers], "202")
  \/ \E p \in Peers :
       HandlePeerAvailable(PeerWithMedia(p, "e1", <<"c1">>), 0, "202")

\* the steps of the upload request of caller u, with n files
Upload(u, n) ==
  \/ \E bearer \in BOOLEAN, token \in Presentable, catalog_id \in Catalogs :
       RouteValidate(u, bearer, token, catalog_id, n)
  \/ ProcessBlacklist(u)
  \/ \E outcome \in UploadOutcomes : ProcessUpload(u, outcome)
  \/ \E reply \in DirectoryReplies("c1") : ProcessFinish(u, reply)

\* Spec: one request, its tokens, and one upload request at a time, as time
\* passes
Next ==
  \/ OneRequest
  \/ \E n \in {0, MaxFiles} : Upload("u1", n)
  \/ \E d \in TickSteps : Tick(d)

Spec == Init /\ [][Next]_vars

\* SpecRace: one request, its tokens, and two upload requests in flight
NextRace ==
  \/ OneRequest
  \/ \E u \in Callers, n \in {0, 1} : Upload(u, n)

SpecRace == Init /\ [][NextRace]_vars

\* SpecSequel: one request, its tokens, and two upload requests one after
\* the other: caller u2 starts when the upload of caller u1 has returned
NextSequel ==
  \/ OneRequest
  \/ \E n \in {0, 1} : Upload("u1", n)
  \/ /\ callers["u1"].pc = "done"
     /\ \E n \in {0, 1} : Upload("u2", n)

SpecSequel == Init /\ [][NextSequel]_vars

\* SpecPublish: one request, its tokens and one upload, with a producer
\* that may fail
NextPublish ==
  \/ OneRequest
  \/ \E n \in {0, 1} : Upload("u1", n)
  \/ \E reply \in DirectoryReplies("c1") : ProcessFinishPublishFailed("u1", reply)

SpecPublish == Init /\ [][NextPublish]_vars

\* SpecRequests: handle_screenshot_request over every request, every reply
\* of the peer directory and of the edge, with the ledger up or down (with
\* no peer to invite, no POST goes to the edge)
NextRequests ==
  \E request \in RequestEvents(now) :
    \/ HandleScreenshotRequest(request, "down",
                               [status |-> "raised", peers |-> <<>>], "202")
    \/ \E reply \in DirectoryReplies(request.catalog_id) :
         \E mode \in IF _get_peers_with_catalog_id(reply) = <<>>
                     THEN {"202"} ELSE EdgeModes :
           HandleScreenshotRequest(request, "ok", reply, mode)

SpecRequests == Init /\ [][NextRequests]_vars

\* SpecPeers: requests that wait in the ledger because no peer was known,
\* and handle_peer_available over every offer
NextPeers ==
  \/ \E c \in Catalogs, r \in RequestIds :
       HandleScreenshotRequest(ScreenshotRequest(c, r, now, NoTime), "ok",
                               [status |-> "200", peers |-> <<>>], "202")
  \/ \E c \in Catalogs, r \in RequestIds :
       HandleScreenshotRequest(ScreenshotRequest(c, r, now, NoTime), "down",
                               [status |-> "200", peers |-> <<>>], "202")
  \/ \E peer \in PeerOffers, mode \in EdgeModes :
       \E failAt \in 0..Len(peer.catalog_ids) :
         HandlePeerAvailable(peer, failAt, mode)

SpecPeers == Init /\ [][NextPeers]_vars

\* SpecToken: the token service called directly, on hosts in several time
\* zones, as time passes
TokenCreate(peer_id, catalog_id, request_id) ==
  /\ Len(issued) < MaxTokens
  /\ issued' = Append(issued, create_token(peer_id, catalog_id, request_id,
                                           Len(issued) + 1, now, tz))
  /\ UNCHANGED <<adds, kafka, now, ticks, tz, blacklist, ledger, ledgerTtl, invites,
                 published, storage, callers, lastOp>>

TokenBlacklist(token_id, reason, ttl_hours) ==
  /\ lastOp' = IF redis_exists(blacklist, token_id)
               THEN "blacklist:overwritten" ELSE "blacklist:new"
  /\ blacklist' = blacklist_token(blacklist, token_id, reason, ttl_hours, now)
  /\ UNCHANGED <<adds, kafka, now, ticks, tz, ledger, ledgerTtl, issued, invites,
                 published, storage, callers>>

NextToken ==
  \/ \E p \in Peers : TokenCreate(p, "c1", "r1")
  \/ \E k \in 1..Len(issued), reason \in TokenBlacklistReason :
       TokenBlacklist(k, reason, BlacklistTtlHours)
  \/ \E d \in TickSteps : Tick(d)

SpecToken == InitAnyZone /\ [][NextToken]_vars

\* SpecLedger: the pending-request ledger called directly, as time passes
LedgerRequests(t) ==
  { ScreenshotRequest(c, r, created, e) :
      c \in Catalogs, r \in RequestIds, created \in {0, t},
      e \in {NoTime, t, t + 60} }

LedgerAdd(request) ==
  LET added == add_pending_request(ledger, ledgerTtl, request, now)
  IN  /\ lastOp' = IF with_expiration(request).expires_at > now
                   THEN "ledger:stored" ELSE "ledger:expired"
      /\ ledger' = added[1]
      /\ ledgerTtl' = added[2]
      /\ UNCHANGED <<adds, kafka, now, ticks, tz, blacklist, issued, invites, published,
                     storage, callers>>

LedgerRemove(catalog_id, request_id) ==
  LET removed == remove_pending_request(ledger, ledgerTtl, catalog_id,
                                        request_id)
  IN  /\ lastOp' = "ledger:removed"
      /\ ledger' = removed[1]
      /\ ledgerTtl' = removed[2]
      /\ UNCHANGED <<adds, kafka, now, ticks, tz, blacklist, issued, invites, published,
                     storage, callers>>

NextLedger ==
  \/ \E request \in LedgerRequests(now) : LedgerAdd(request)
  \/ \E c \in Catalogs, r \in RequestIds : LedgerRemove(c, r)
  \/ \E d \in TickSteps : Tick(d)

SpecLedger == Init /\ [][NextLedger]_vars

\* SpecAddRace: add_pending_request as the two commands it sends to Redis,
\* HSET and then EXPIRE, called by two service instances at a time.  The
\* time to live is computed before the HSET; an HSET on a new key makes a
\* key without time to live, on an existing key it keeps the key's.
AddRequests(t) ==
  { ScreenshotRequest(c, r, t, e) :
      c \in Catalogs, r \in RequestIds, e \in {NoTime, t + 60} }

AddHset(i, request) ==
  LET req == with_expiration(request)
      ttl_seconds == req.expires_at - now
  IN  /\ adds[i].pc = "idle"
      /\ adds' = [adds EXCEPT ![i] =
           [pc |-> IF ttl_seconds > 0 THEN "hset" ELSE "done",
            request |-> Some(req), ttl_seconds |-> ttl_seconds]]
      /\ ledger' = IF ttl_seconds > 0
                   THEN [ledger EXCEPT ![req.catalog_id][req.request_id] =
                           model_dump_json(req)]
                   ELSE ledger
      /\ UNCHANGED <<kafka, now, ticks, tz, blacklist, ledgerTtl, issued,
                     invites, published, storage, callers, lastOp>>

\* EXPIRE sets the time to live of the key, if the key exists
AddExpire(i) ==
  LET req == adds[i].request[1]
  IN  /\ adds[i].pc = "hset"
      /\ adds' = [adds EXCEPT ![i].pc = "done"]
      /\ ledgerTtl' = IF ledger[req.catalog_id] = NoHash THEN ledgerTtl
                      ELSE [ledgerTtl EXCEPT ![req.catalog_id] =
                              now + adds[i].ttl_seconds]
      /\ UNCHANGED <<kafka, now, ticks, tz, blacklist, ledger, issued,
                     invites, published, storage, callers, lastOp>>

NextAddRace ==
  \/ \E i \in Instances, request \in AddRequests(now) : AddHset(i, request)
  \/ \E i \in Instances : AddExpire(i)

SpecAddRace == Init /\ [][NextAddRace]_vars

\* the call ends between its two commands: the process dies, or EXPIRE
\* raises (connection lost, timeout) and the exception leaves
\* add_pending_request, which has no handler for it
AddInterrupted(i) ==
  /\ adds[i].pc = "hset"
  /\ adds' = [adds EXCEPT ![i].pc = "interrupted"]
  /\ UNCHANGED <<kafka, now, ticks, tz, blacklist, ledger, ledgerTtl, issued,
                 invites, published, storage, callers, lastOp>>

\* SpecAddFail: adds of two instances, command by command, any of which may
\* end between HSET and EXPIRE, as time passes
NextAddFail ==
  \/ \E i \in Instances, request \in AddRequests(now) : AddHset(i, request)
  \/ \E i \in Instances : AddExpire(i)
  \/ \E i \in Instances : AddInterrupted(i)
  \/ \E d \in TickSteps : Tick(d)

SpecAddFail == Init /\ [][NextAddFail]_vars

\* ------------------------------------------------------- KafkaService
\* the topics of the consumer, by their configuration names
screenshots_requested_topic == "media.screenshots.requested"
peer_available_topic == "peer.available.with_requested_media"

\* the handler pairs start_consuming may be given
Handlers == {<<"on_request", "on_peer">>, <<"on_request_2", "on_peer_2">>}

\* Faulty variant: the running flag is not looked at
start_consuming_unguarded(k, handlers) ==
  [k EXCEPT
     !.running = TRUE,
     !.consumers = Append(k.consumers,
        [subscribed |-> {screenshots_requested_topic, peer_available_topic},
         closed |-> 0]),
     !.consumer = Len(k.consumers) + 1,
     !.threads = Append(k.threads,
        [target |-> "_consume_loop", args |-> handlers, daemon |-> TRUE,
         alive |-> TRUE, msg |-> ""]),
     !.consumer_thread = Len(k.threads) + 1]

\* start_consuming: nothing when running; otherwise the flag is set, a
\* consumer is made and subscribed, and a daemon thread is started on
\* _consume_loop
start_consuming(k, handlers) ==
  IF k.running THEN k
  ELSE [k EXCEPT
          !.running = TRUE,
          !.consumers = Append(k.consumers,
             [subscribed |-> {screenshots_requested_topic, peer_available_topic},
              closed |-> 0]),
          !.consumer = Len(k.consumers) + 1,
          !.threads = Append(k.threads,
             [target |-> "_consume_loop", args |-> handlers, daemon |-> TRUE,
              alive |-> TRUE, msg |-> ""]),
          !.consumer_thread = Len(k.threads) + 1]

StartConsuming(handlers) ==
  /\ Len(kafka.threads) < MaxStarts
  /\ lastOp' = IF kafka.running THEN "start:running" ELSE "start:started"
  /\ kafka' = start_consuming(kafka, handlers)
  /\ UNCHANGED <<adds, now, ticks, tz, blacklist, ledger, ledgerTtl, issued,
                 invites, published, storage, callers>>

\* stop_consuming clears the flag and waits up to five seconds for the
\* thread; the wait changes nothing
StopConsuming ==
  /\ lastOp' = "stop"
  /\ kafka' = [kafka EXCEPT !.running = FALSE]
  /\ UNCHANGED <<adds, now, ticks, tz, blacklist, ledger, ledgerTtl, issued,
                 invites, published, storage, callers>>

\* Faulty variant: the loop ends without closing the consumer.
LoopExit_no_close(t, cause) ==
  /\ kafka.threads[t].alive
  /\ kafka.threads[t].msg = ""
  /\ cause = "stopped" => ~kafka.running
  /\ lastOp' = "loop:exit"
  /\ kafka' = [kafka EXCEPT !.threads[t].alive = FALSE]
  /\ UNCHANGED <<adds, now, ticks, tz, blacklist, ledger, ledgerTtl, issued,
                 invites, published, storage, callers>>

\* _consume_loop of thread t leaves its loop, the flag being cleared or
\* poll having raised KafkaException, and closes self.consumer
LoopExit(t, cause) ==
  /\ kafka.threads[t].alive
  /\ kafka.threads[t].msg = ""
  /\ cause = "stopped" => ~kafka.running
  /\ lastOp' = "loop:exit"
  /\ kafka' = [kafka EXCEPT
        !.threads[t].alive = FALSE,
        !.consumers[kafka.consumer].closed = @ + 1]
  /\ UNCHANGED <<adds, now, ticks, tz, blacklist, ledger, ledgerTtl, issued,
                 invites, published, storage, callers>>

NextKafka ==
  \/ \E handlers \in Handlers : StartConsuming(handlers)
  \/ StopConsuming
  \/ \E t \in 1..Len(kafka.threads), cause \in {"stopped", "kafka_exception"} :
       LoopExit(t, cause)

SpecKafka == Init /\ [][NextKafka]_vars

\* what consumer.poll(timeout=1.0) can return: nothing, a message that
\* carries an error (end of partition, or another), a message of one of the
\* two subscribed topics, or a message whose value does not parse into the
\* model of its topic
MessageKinds ==
  {"none", "partition_eof", "error", "requested", "peer_available",
   "unparsable"}

\* Faulty variant: a message that carries an error other than the end of a
\* partition ends the loop's thread without closing anything.
LoopPoll_fatal_error(t, m) ==
  /\ kafka.threads[t].alive
  /\ kafka.threads[t].msg = ""
  /\ kafka.running
  /\ kafka.polled < MaxMessages
  /\ lastOp' = "loop:polled"
  /\ kafka' = [kafka EXCEPT
        !.polled = @ + 1,
        !.errors = IF m = "error" THEN @ + 1 ELSE @,
        !.threads[t].alive = (m # "error"),
        !.threads[t].msg = IF m \in {"none", "partition_eof", "error"}
                           THEN "" ELSE m]
  /\ UNCHANGED <<adds, now, ticks, tz, blacklist, ledger, ledgerTtl, issued,
                 invites, published, storage, callers>>

\* one pass of `while self.running` up to the inner try: poll, `continue` on
\* None and on a message with an error (an error other than _PARTITION_EOF
\* is logged)
LoopPoll(t, m) ==
  /\ kafka.threads[t].alive
  /\ kafka.threads[t].msg = ""
  /\ kafka.running
  /\ kafka.polled < MaxMessages
  /\ lastOp' = "loop:polled"
  /\ kafka' = [kafka EXCEPT
        !.polled = @ + 1,
        !.errors = IF m = "error" THEN @ + 1 ELSE @,
        !.threads[t].msg = IF m \in {"none", "partition_eof", "error"}
                           THEN "" ELSE m]
  /\ UNCHANGED <<adds, now, ticks, tz, blacklist, ledger, ledgerTtl, issued,
                 invites, published, storage, callers>>

\* the inner try: the value is parsed and the handler of the message's topic
\* is called; every exception, of the parsing or of the handler, is logged
\* and the loop goes on
LoopHandle(t, outcome) ==
  LET me == kafka.threads[t]
      handler == IF me.msg = "requested" THEN me.args[1] ELSE me.args[2]
  IN  /\ me.alive
      /\ me.msg # ""
      /\ lastOp' = IF me.msg = "unparsable" THEN "loop:parse_failed"
                   ELSE IF outcome = "raises" THEN "loop:handler_raised"
                   ELSE "loop:dispatched"
      /\ kafka' = [kafka EXCEPT
            !.threads[t].msg = "",
            !.calls = IF me.msg = "unparsable" THEN @ ELSE Append(@, handler),
            !.errors = IF me.msg = "unparsable" \/ outcome = "raises"
                       THEN @ + 1 ELSE @]
      /\ UNCHANGED <<adds, now, ticks, tz, blacklist, ledger, ledgerTtl,
                     issued, invites, published, storage, callers>>

\* SpecLoop: the consumer's life as the service runs it: started, messages
\* polled and handled, stopped, and started again only once the thread that
\* stop_consuming waited for has ended.  The loop's thread keeps running:
\* a handler returns or raises, and a loop that finds the flag cleared ends.
NextLoop ==
  \/ \E handlers \in Handlers :
       /\ kafka.running \/ \A t \in 1..Len(kafka.threads) : ~kafka.threads[t].alive
       /\ StartConsuming(handlers)
  \/ StopConsuming
  \/ \E t \in 1..Len(kafka.threads), m \in MessageKinds : LoopPoll(t, m)
  \/ \E t \in 1..Len(kafka.threads), outcome \in {"returns", "raises"} :
       LoopHandle(t, outcome)
  \/ \E t \in 1..Len(kafka.threads), cause \in {"stopped", "kafka_exception"} :
       LoopExit(t, cause)

SpecLoop ==
  /\ Init
  /\ [][NextLoop]_vars
  /\ WF_vars(\E t \in 1..Len(kafka.threads), outcome \in {"returns", "raises"} :
               LoopHandle(t, outcome))
  /\ WF_vars(\E t \in 1..Len(kafka.threads) : LoopExit(t, "stopped"))

\* SpecRestart: starts and stops in any order around a running loop.  A
\* start that follows a stop comes after stop_consuming's join: the thread
\* has ended, or the five seconds ran out on a thread that is still inside
\* a handler (a poll returns within its one-second timeout)
NextRestart ==
  \/ \E handlers \in Handlers :
       /\ \/ kafka.running
          \/ \A t \in 1..Len(kafka.threads) :
               kafka.threads[t].alive => kafka.threads[t].msg # ""
       /\ StartConsuming(handlers)
  \/ StopConsuming
  \/ \E t \in 1..Len(kafka.threads), m \in MessageKinds : LoopPoll(t, m)
  \/ \E t \in 1..Len(kafka.threads), outcome \in {"returns", "raises"} :
       LoopHandle(t, outcome)
  \/ \E t \in 1..Len(kafka.threads), cause \in {"stopped", "kafka_exception"} :
       LoopExit(t, cause)

SpecRestart == Init /\ [][NextRestart]_vars

\* SpecIntake: the ledger fed with whatever a screenshots-requested message
\* may carry: created_at is the sender's, now or ahead of this host's clock,
\* and expires_at is absent or any later instant of the sender's choosing
RequestMessages(t) ==
  { ScreenshotRequest(c, r, created, e) :
      c \in Catalogs, r \in RequestIds, created \in {t, t + 120},
      e \in {NoTime, t + 60, t + 180} }

NextIntake ==
  \/ \E request \in RequestMessages(now) : LedgerAdd(request)
  \/ \E d \in TickSteps : Tick(d)

SpecIntake == Init /\ [][NextIntake]_vars

\* SpecStale: requests of one catalog with an expires_at of their own (half
\* an hour ahead) or with the default one, peers that come up for the
\* catalog, and time passing
StaleRequests(t) ==
  { ScreenshotRequest("c1", r, t, e) : r \in RequestIds, e \in {NoTime, t + 30} }

NextStale ==
  \/ \E request \in StaleRequests(now) : LedgerAdd(request)
  \/ \E p \in Peers :
       HandlePeerAvailable(PeerWithMedia(p, "e1", <<"c1">>), 0, "202")
  \/ \E d \in TickSteps : Tick(d)

SpecStale == Init /\ [][NextStale]_vars

\* SpecDispatch: requests that wait in the ledger, requests that find
\* peers and offers of peers, with invites that fail
NextDispatch ==
  \/ \E c \in Catalogs, r \in RequestIds :
       HandleScreenshotRequest(ScreenshotRequest(c, r, now, NoTime), "ok",
                               [status |-> "200", peers |-> <<>>], "202")
  \/ \E c \in Catalogs, mode \in DispatchModes :
       \E peers \in PeerLists(c) \ {<<>>} :
         HandleScreenshotRequest(ScreenshotRequest(c, "r1", now, NoTime), "ok",
                                 [status |-> "200", peers |-> peers], mode)
  \/ \E peer \in PeerOffers, mode \in DispatchModes :
       HandlePeerAvailable(peer, 0, mode)

SpecDispatch == Init /\ [][NextDispatch]_vars

\* SpecRoute: one request and its tokens, the upload of caller u1, and an
\* upload request of caller u2 that the route turns away, as time passes
NextRoute ==
  \/ HandleScreenshotRequest(ScreenshotRequest("c1", "r1", now, NoTime), "ok",
       [status |-> "200",
        peers |-> << PeerWithMedia("p1", "e1", <<"c1">>),
                     PeerWithMedia("p2", "e2", <<"c1">>) >>], "202")
  \/ Upload("u1", 1)
  \/ \E u \in {"u2"}, bearer \in BOOLEAN, token \in Presentable,
        catalog_id \in Catalogs, decode \in UnverifiedDecodes :
       RouteReject(u, bearer, token, catalog_id, decode)
  \/ \E d \in TickSteps : Tick(d)

SpecRoute == Init /\ [][NextRoute]_vars

\* ------------------------------------------------------------- claims
\* the tokens minted so far for the request of token_id k, for other peers
Siblings(k) ==
  {j \in 1..Len(issued) :
     /\ j # k
     /\ issued[j].claims.catalog_id = issued[k].claims.catalog_id
     /\ issued[j].claims.request_id = issued[k].claims.request_id
     /\ issued[j].claims.peer_id # issued[k].claims.peer_id}

\* C1: for every (catalog_id, request_id) at most one redemption wins, that
\* is, uploads and publishes the completion: the completions published for
\* one request all come from the redemption of one and the same token.
C1_AtMostOneWinner ==
  \A c \in Catalogs, r \in RequestIds :
    Cardinality({published[i].token_id : i \in
      {j \in DOMAIN published :
         /\ published[j].message.catalog_id = c
         /\ published[j].message.request_id = r}}) <= 1

\* C2: of the callers that redeem the same token, exactly one sees it as not
\* yet blacklisted and goes on to process_screenshot_upload.
C2_OneCallerProceeds ==
  \A k \in TokenIds :
    Cardinality({u \in Callers :
                   /\ callers[u].pc # "idle"
                   /\ callers[u].payload[1].token_id = k}) <= 1

\* C3: process_screenshot_upload blacklists the redeeming token as
\* ALREADY_USED before any file is uploaded: while the files are uploaded the
\* entry is there, and from then on validate_token rejects every token that
\* carries the token_id.
C3_BlacklistedBeforeUpload ==
  \A u \in Callers :
    LET k == callers[u].payload[1].token_id
    IN  /\ callers[u].pc = "uploading" =>
             get_blacklist_reason(blacklist, k) = Some(ALREADY_USED)
        /\ callers[u].pc \in {"uploading", "done"} =>
             \A token \in Presentable :
               token.claims.token_id = k =>
                 validate_token(token, blacklist, now) = None
\* a file has been uploaded for a token that is signed and not expired
C3_Witness ==
  \E u \in Callers :
    /\ callers[u].pc = "uploading"
    /\ Len(callers[u].todo) < Len(callers[u].files)
    /\ storage # {}
    /\ jwt_decode(issued[callers[u].payload[1].token_id], now) # JWTError


\* C4: after blacklist_token(token_id, reason, ttl), and while the entry
\* exists, validate_token rejects every token that carries that token_id,
\* whatever its signature and expiry, and the reason read back for it is the
\* reason of the latest blacklist_token call.
C4_Rejected ==
  \A token \in Presentable :
    (token.wellformed /\ redis_exists(blacklist, token.claims.token_id)) =>
      /\ validate_token(token, blacklist, now) = None
      /\ get_blacklist_reason(blacklist, token.claims.token_id) # None
C4_Reason ==
  \A k \in TokenIds :
    /\ \A reason \in TokenBlacklistReason :
         TokenBlacklist(k, reason, BlacklistTtlHours) =>
           get_blacklist_reason(blacklist', k) = Some(reason)
    /\ (redis_exists(blacklist', k) /\ ~redis_exists(blacklist, k)) =>
         \E reason \in TokenBlacklistReason :
           TokenBlacklist(k, reason, BlacklistTtlHours)
    /\ (redis_exists(blacklist', k)
          /\ get_blacklist_reason(blacklist', k) # get_blacklist_reason(blacklist, k)) =>
         \E reason \in TokenBlacklistReason :
           TokenBlacklist(k, reason, BlacklistTtlHours)
C5_FreshTokenAccepted ==
  [][\A p \in Peers, c \in Catalogs, r \in RequestIds :
       TokenCreate(p, c, r) =>
         LET token == issued'[Len(issued')]
             payload == validate_token(token, blacklist', now')
         IN  /\ payload # None
             /\ payload[1].peer_id = p
             /\ payload[1].catalog_id = c
             /\ payload[1].request_id = r
             /\ payload[1].token_id = token.claims.token_id]_vars


\* C6: when process_screenshot_upload returns for a token, every other token
\* issued for the same (catalog_id, request_id) to another peer is
\* blacklisted with reason OTHER_PEER_UPLOADED.
C6_SiblingsBlacklisted ==
  [][\A u \in Callers, reply \in DirectoryReplies("c1") :
       ProcessFinish(u, reply) =>
         \A j \in Siblings(callers[u].payload[1].token_id) :
           get_blacklist_reason(blacklist', j) = Some(OTHER_PEER_UPLOADED)]_vars

\* C7: redeeming a valid token with n files whose uploads all succeed returns
\* n URLs in the order of the files, publishes exactly one completion
\* message {catalog_id, request_id, those URLs, "completed"}, removes the
\* request's ledger entry and leaves the token blacklisted as ALREADY_USED.
C7_Redeemed ==
  [][\A u \in Callers, reply \in DirectoryReplies("c1") :
       (ProcessFinish(u, reply)
          /\ Len(callers[u].urls) = Len(callers[u].files)) =>
         LET token_payload == callers[u].payload[1]
             files == callers[u].files
             returned == callers'[u].urls
         IN  /\ callers'[u].pc = "done"
             /\ returned =
                  [i \in 1..Len(files) |->
                     get_screenshot_url(
                       object_name(token_payload.catalog_id, u, files[i]))]
             /\ \A i \in 1..Len(files) :
                  object_name(token_payload.catalog_id, u, files[i]) \in storage'
             /\ Len(published') = Len(published) + 1
             /\ SubSeq(published', 1, Len(published)) = published
             /\ published'[Len(published')].message =
                  [catalog_id |-> token_payload.catalog_id,
                   request_id |-> token_payload.request_id,
                   screenshot_urls |-> returned, status |-> "completed"]
             /\ ledger'[token_payload.catalog_id][token_payload.request_id]
                  = None
             /\ get_blacklist_reason(blacklist', token_payload.token_id)
                  = Some(ALREADY_USED)]_vars
\* an upload of MaxFiles files has returned all their URLs and its
\* completion is published
C7_Witness ==
  \E u \in Callers :
    /\ callers[u].pc = "done"
    /\ Len(callers[u].files) = MaxFiles
    /\ Len(callers[u].urls) = MaxFiles
    /\ \E i \in DOMAIN published :
         published[i].message.screenshot_urls = callers[u].urls

\* how often catalog_id c occurs in a list of catalog_ids
Occurrences(catalog_ids, c) ==
  Cardinality({i \in DOMAIN catalog_ids : catalog_ids[i] = c})

\* C8: handle_peer_available(offer) mints exactly one token and sends exactly
\* one invite for each pair of a catalog_id of offer.catalog_ids (each
\* occurrence in the list) and a request pending for that catalog_id, the
\* token scoped to (offer.peer_id, catalog_id, request_id); a catalog_id with
\* no pending request yields no token and no invite.
C8_OneTokenPerPendingRequest ==
  [][\A peer \in PeerOffers, mode \in EdgeModes :
       HandlePeerAvailable(peer, 0, mode) =>
         LET new == (Len(issued) + 1)..Len(issued')
             posts == (Len(invites) + 1)..Len(invites')
         IN  /\ SubSeq(issued', 1, Len(issued)) = issued
             /\ SubSeq(invites', 1, Len(invites)) = invites
             /\ \A k \in new :
                  /\ issued'[k].claims.peer_id = peer.peer_id
                  /\ issued'[k].claims.token_id = k
                  /\ issued'[k].signed
                  /\ Cardinality({i \in posts : invites'[i].token_id = k}) = 1
             /\ \A i \in posts :
                  /\ invites'[i].token_id \in new
                  /\ invites'[i].peer_id = peer.peer_id
                  /\ invites'[i].edge_id = peer.edge_id
                  /\ invites'[i].catalog_id =
                       issued'[invites'[i].token_id].claims.catalog_id
             /\ \A c \in Catalogs, r \in RequestIds :
                  Cardinality({k \in new :
                                 /\ issued'[k].claims.catalog_id = c
                                 /\ issued'[k].claims.request_id = r})
                    = IF ledger[c][r] = None THEN 0
                      ELSE Occurrences(peer.catalog_ids, c)]_vars
\* a peer-available event has ended with two invites while one catalog holds
\* no pending request
C8_Witness ==
  /\ lastOp = "peer_available:ok"
  /\ Len(invites) = 2
  /\ \A i \in DOMAIN invites : invites[i].via = "peer_available"
  /\ \E c \in Catalogs : ledger[c] = NoHash

\* C9: handle_screenshot_request stores the request first; when the peer
\* directory then returns no peers, answers with another status than 200 or
\* raises, the handler ends without error, mints no token, sends no invite,
\* and the request (unless it had expired on arrival) is in the ledger.
\* (No POST goes to the edge in these runs, so its replies play no part.)
C9_NoPeersKeepsRequest ==
  [][\A request \in RequestEvents(now) :
       \A reply \in DirectoryReplies(request.catalog_id) :
         ((reply.status # "200" \/ reply.peers = <<>>)
            /\ HandleScreenshotRequest(request, "ok", reply, "202")) =>
           /\ lastOp' = "request:no_peers"
           /\ issued' = issued
           /\ invites' = invites
           /\ with_expiration(request).expires_at > now =>
                \E i \in DOMAIN get_pending_requests(ledger', request.catalog_id) :
                  get_pending_requests(ledger', request.catalog_id)[i]
                    = with_expiration(request)
           /\ \A c \in Catalogs, r \in RequestIds :
                ledger[c][r] # None => ledger'[c][r] # None]_vars
\* a request waits in the ledger after its handler found no peers, and no
\* token has been minted
C9_Witness ==
  /\ lastOp = "request:no_peers"
  /\ issued = <<>>
  /\ invites = <<>>
  /\ \E c \in Catalogs, r \in RequestIds : ledger[c][r] # None

\* C10: each invite of a peer for a request mints exactly one token, whose
\* catalog_id is the request's: handle_screenshot_request mints one token
\* for each peer the directory returned, none of them for a catalog other
\* than request.catalog_id.
C10_TokenForRequestedCatalog ==
  [][\A request \in RequestEvents(now), mode \in EdgeModes :
       \A reply \in DirectoryReplies(request.catalog_id) :
         (HandleScreenshotRequest(request, "ok", reply, mode)
            /\ reply.status = "200") =>
           /\ Len(issued') - Len(issued) = Len(reply.peers)
           /\ \A k \in (Len(issued) + 1)..Len(issued') :
                /\ issued'[k].claims.catalog_id = request.catalog_id
                /\ issued'[k].claims.request_id = request.request_id]_vars

\* the entries stored for a catalog, by request_id
Stored(hashes, catalog_id) ==
  {r \in RequestIds : hashes[catalog_id][r] # None}

\* C11: an add for a catalog whose bucket already has a time to live leaves
\* the bucket's expiry at the larger of the bucket's remaining time to live
\* and the new entry's: it never shortens the survival of the entries stored.
C11_ExpiryIsMaximum ==
  [][\A request \in LedgerRequests(now) :
       LET req == with_expiration(request)
           old == ledgerTtl[req.catalog_id]
       IN  (LedgerAdd(request) /\ req.expires_at > now) =>
             ledgerTtl'[req.catalog_id] =
               IF old # NoTime /\ old > req.expires_at THEN old
               ELSE req.expires_at]_vars

\* C12: add_pending_request with an expires_at that is not after now (given,
\* or computed from created_at) stores no entry and leaves the bucket's
\* expiry alone: the ledger is unchanged.
C12_ExpiredAddIsNoOp ==
  [][\A request \in LedgerRequests(now) :
       (LedgerAdd(request) /\ with_expiration(request).expires_at <= now) =>
         /\ ledger' = ledger
         /\ ledgerTtl' = ledgerTtl]_vars
\* an expired request has just been offered to a ledger that holds an entry
C12_Witness ==
  /\ lastOp = "ledger:expired"
  /\ \E c \in Catalogs : Stored(ledger, c) # {} /\ ledgerTtl[c] > now

\* C13: get_all_pending_catalog_ids returns exactly the catalog_ids that
\* hold a stored entry, at every state and across every operation: an add
\* that stores brings its catalog in, a remove takes the catalog out when
\* it removes its last entry, and an expired bucket is out.
C13_State ==
  get_all_pending_catalog_ids(ledger) =
    {c \in Catalogs : Len(get_pending_requests(ledger, c)) > 0}
C13_Step ==
  /\ \A request \in LedgerRequests(now) :
       (LedgerAdd(request) /\ with_expiration(request).expires_at > now) =>
         get_all_pending_catalog_ids(ledger') =
           get_all_pending_catalog_ids(ledger) \cup {request.catalog_id}
  /\ \A c \in Catalogs, r \in RequestIds :
       LedgerRemove(c, r) =>
         get_all_pending_catalog_ids(ledger') =
           IF Stored(ledger, c) \subseteq {r}
           THEN get_all_pending_catalog_ids(ledger) \ {c}
           ELSE get_all_pending_catalog_ids(ledger)
  /\ \A d \in TickSteps :
       Tick(d) =>
         get_all_pending_catalog_ids(ledger') =
           {c \in get_all_pending_catalog_ids(ledger) : ledgerTtl[c] > now + d}
C13_CatalogsWithPending == [](C13_State) /\ [][C13_Step]_vars
\* the last entry of one catalog has just been removed while another
\* catalog still holds one
C13_Witness ==
  /\ lastOp = "ledger:removed"
  /\ Cardinality(get_all_pending_catalog_ids(ledger)) = 1
  /\ \E c \in Catalogs : ledgerTtl[c] = NoTime /\ Stored(ledger, c) = {}

\* C14: adding a request a second time leaves the ledger as the first add
\* left it, and get_pending_requests never returns two entries with the
\* same request_id for one catalog.
C14_AddIsIdempotent ==
  /\ \A request \in LedgerRequests(now) :
       LET once == add_pending_request(ledger, ledgerTtl, request, now)
       IN  add_pending_request(once[1], once[2], request, now) = once
  /\ \A c \in Catalogs :
       LET pending == get_pending_requests(ledger, c)
       IN  \A i, j \in DOMAIN pending :
             pending[i].request_id = pending[j].request_id => i = j
\* a request is stored in a bucket that holds two entries, some time after
\* it was created
C14_Witness ==
  /\ lastOp = "ledger:stored"
  /\ now > 0
  /\ \E c \in Catalogs :
       /\ Len(get_pending_requests(ledger, c)) = 2
       /\ \E request \in LedgerRequests(now) :
            /\ request.catalog_id = c
            /\ request.created_at = 0
            /\ ledger[c][request.request_id] =
                 model_dump_json(with_expiration(request))

\* C15: remove_pending_request(catalog_id, request_id) deletes that entry
\* and nothing else: every other entry, and the expiry of every bucket that
\* still holds an entry, stay as they were; with the entry absent the ledger
\* is unchanged.
C15_RemoveOnlyThatEntry ==
  [][\A c \in Catalogs, r \in RequestIds :
       LedgerRemove(c, r) =>
         /\ lastOp' = "ledger:removed"
         /\ ledger'[c][r] = None
         /\ \A c2 \in Catalogs, r2 \in RequestIds :
              <<c2, r2>> # <<c, r>> => ledger'[c2][r2] = ledger[c2][r2]
         /\ \A c2 \in Catalogs :
              Stored(ledger', c2) # {} => ledgerTtl'[c2] = ledgerTtl[c2]
         /\ ledger[c][r] = None =>
              ledger' = ledger /\ ledgerTtl' = ledgerTtl]_vars
\* a remove has just run and left an entry in each of the two catalogs
C15_Witness ==
  /\ lastOp = "ledger:removed"
  /\ \A c \in Catalogs : Cardinality(Stored(ledger, c)) = 1

\* C16: get_pending_requests(catalog_id) returns exactly the entries added
\* for the catalog that are still stored, each with the five fields it was
\* stored with, and the empty sequence when there are none.
C16_State ==
  \A c \in Catalogs :
    LET pending == get_pending_requests(ledger, c)
    IN  /\ Len(pending) = Cardinality(Stored(ledger, c))
        /\ {pending[i].request_id : i \in DOMAIN pending} = Stored(ledger, c)
        /\ \A i \in DOMAIN pending :
             /\ pending[i].catalog_id = c
             /\ pending[i].requester_service = "svc"
             /\ model_dump_json(pending[i]) = ledger[c][pending[i].request_id]
C16_Step ==
  /\ \A request \in LedgerRequests(now) :
       (LedgerAdd(request) /\ with_expiration(request).expires_at > now) =>
         \A c \in Catalogs :
           Range(get_pending_requests(ledger', c)) =
             IF c = request.catalog_id
             THEN {e \in Range(get_pending_requests(ledger, c)) :
                     e.request_id # request.request_id}
                  \cup {with_expiration(request)}
             ELSE Range(get_pending_requests(ledger, c))
  /\ \A c \in Catalogs, r \in RequestIds :
       LedgerRemove(c, r) =>
         \A c2 \in Catalogs :
           Range(get_pending_requests(ledger', c2)) =
             {e \in Range(get_pending_requests(ledger, c2)) :
                c2 # c \/ e.request_id # r}
  /\ \A d \in TickSteps :
       Tick(d) =>
         \A c \in Catalogs :
           get_pending_requests(ledger', c) =
             IF ledgerTtl[c] # NoTime /\ ledgerTtl[c] <= now + d THEN <<>>
             ELSE get_pending_requests(ledger, c)
C16_ListIsWhatIsStored == [](C16_State) /\ [][C16_Step]_vars
\* two requests are listed for a catalog, one stored with an expires_at of
\* its own, while the other catalog lists none
C16_Witness ==
  \E c \in Catalogs :
    /\ Len(get_pending_requests(ledger, c)) = 2
    /\ \E i \in 1..2 :
         LET e == get_pending_requests(ledger, c)[i]
         IN  e.expires_at = e.created_at + 60
    /\ \E c2 \in Catalogs : get_pending_requests(ledger, c2) = <<>>

\* C17: blacklist_token is a last-write-wins insert: after a call
\* get_blacklist_reason returns the reason of that call, whatever reason
\* (another one or the same) was there before, the other tokens keep theirs,
\* and get_blacklist_reason returns none for a token_id without an entry.
C17_State ==
  \A k \in TokenIds :
    blacklist[k] = None => get_blacklist_reason(blacklist, k) = None
C17_Step ==
  \A k \in 1..Len(issued), reason \in TokenBlacklistReason :
    TokenBlacklist(k, reason, BlacklistTtlHours) =>
      /\ get_blacklist_reason(blacklist', k) = Some(reason)
      /\ \A j \in TokenIds \ {k} :
           get_blacklist_reason(blacklist', j) =
             get_blacklist_reason(blacklist, j)
C17_LastWriteWins == [](C17_State) /\ [][C17_Step]_vars
\* a token that had an entry has been blacklisted again, a token without
\* an entry exists
C17_Witness ==
  /\ lastOp = "blacklist:overwritten"
  /\ \E k \in 1..Len(issued) :
       get_blacklist_reason(blacklist, k) = Some(OTHER_PEER_UPLOADED)
  /\ \E k \in 1..Len(issued) : get_blacklist_reason(blacklist, k) = None

\* C18: once a token has a blacklist entry (as redemption gives it, or any
\* other call of blacklist_token), validate_token rejects it for ever,
\* whatever is called and however much time passes, the expiry of the
\* entry included.
C18_NoWayBack ==
  \A k \in TokenIds :
    []((k <= Len(issued) /\ redis_exists(blacklist, k)) =>
         [](k <= Len(issued) /\
            validate_token(issued[k], blacklist, now) = None))
\* the only token was blacklisted, its entry has expired, and it is rejected
C18_Witness ==
  /\ lastOp = "blacklist:new"
  /\ Len(issued) = 1
  /\ ~redis_exists(blacklist, 1)
  /\ now >= BlacklistTtlHours * 60
  /\ validate_token(issued[1], blacklist, now) = None

\* the elements of a sequence at the positions in S, in their order
RECURSIVE Pick(_, _)
Pick(s, S) ==
  IF s = <<>> THEN <<>>
  ELSE Pick(SubSeq(s, 1, Len(s) - 1), S)
         \o (IF Len(s) \in S THEN <<s[Len(s)]>> ELSE <<>>)

\* C19: a file whose upload or URL lookup fails is skipped and the loop
\* goes on with the next file: the URLs collected are those of the files
\* that succeeded, in the order of the files, and that list is what is
\* returned and published.
C19_State ==
  \A u \in Callers :
    LET me == callers[u]
        tried == 1..(Len(me.files) - Len(me.todo))
    IN  me.pc \in {"uploading", "done"} =>
          \E S \in SUBSET tried :
            /\ me.urls =
                 Pick([i \in 1..Len(me.files) |->
                         get_screenshot_url(
                           object_name(me.payload[1].catalog_id, u,
                                       me.files[i]))], S)
            /\ \A i \in S :
                 object_name(me.payload[1].catalog_id, u, me.files[i])
                   \in storage
C19_Step ==
  \A u \in Callers :
    /\ \A outcome \in UploadOutcomes :
         ProcessUpload(u, outcome) =>
           /\ callers'[u].pc = "uploading"
           /\ callers'[u].todo = Tail(callers[u].todo)
           /\ callers'[u].urls =
                IF outcome = "ok"
                THEN Append(callers[u].urls,
                            get_screenshot_url(
                              object_name(callers[u].payload[1].catalog_id,
                                          u, Head(callers[u].todo))))
                ELSE callers[u].urls
    /\ \A reply \in DirectoryReplies("c1") :
         ProcessFinish(u, reply) =>
           /\ callers'[u].resp = "200"
           /\ callers'[u].urls = callers[u].urls
           /\ published'[Len(published')].message.screenshot_urls
                = callers[u].urls
C19_FailedFileIsSkipped == [](C19_State) /\ [][C19_Step]_vars
\* an upload of MaxFiles files has returned, and published, the URL of its
\* last file alone
C19_Witness ==
  \E u \in Callers :
    LET me == callers[u]
    IN  /\ me.pc = "done"
        /\ Len(me.files) = MaxFiles
        /\ me.urls = << get_screenshot_url(
                          object_name(me.payload[1].catalog_id, u,
                                      me.files[MaxFiles])) >>
        /\ \E i \in DOMAIN published :
             published[i].message.screenshot_urls = me.urls

\* the invites the edge accepted among those at the positions `posts`
Accepted(all, posts) == {i \in posts : all[i].status = "202"}

\* C20: when the first invite of a run fails (create_token raises, or the
\* POST to the edge raises or is answered with another status than 202),
\* the handler ends without error and the remaining peers of
\* handle_screenshot_request, and the remaining pending requests of
\* handle_peer_available, each get their token and their invite.
C20_Step ==
  \A mode \in DispatchModes \ {"202"} :
    LET posts == (Len(invites) + 1)..Len(invites')
        tokenOf(i) == issued'[invites'[i].token_id].claims
    IN
    /\ \A c \in Catalogs :
         \A peers \in PeerLists(c) \ {<<>>} :
           HandleScreenshotRequest(ScreenshotRequest(c, "r1", now, NoTime),
                                   "ok", [status |-> "200", peers |-> peers],
                                   mode)
           => /\ lastOp' = "request:peers"
              /\ \A n \in 2..Len(peers) :
                   Cardinality({i \in Accepted(invites', posts) :
                                  /\ invites'[i].peer_id = peers[n].peer_id
                                  /\ tokenOf(i).peer_id = peers[n].peer_id
                                  /\ tokenOf(i).request_id = "r1"})
                     = Len(peers[n].catalog_ids)
    /\ \A peer \in PeerOffers :
         HandlePeerAvailable(peer, 0, mode)
         => /\ lastOp' = "peer_available:ok"
            /\ \A i \in posts : tokenOf(i).peer_id = peer.peer_id
            /\ \A c \in Catalogs : \A r \in Stored(ledger, c) :
                 Cardinality({i \in Accepted(invites', posts) :
                                /\ tokenOf(i).catalog_id = c
                                /\ tokenOf(i).request_id = r})
                   >= Occurrences(peer.catalog_ids, c) - 1
            /\ LET total == Cardinality(
                    {<<k, r>> \in (DOMAIN peer.catalog_ids) \X RequestIds :
                       r \in Stored(ledger, peer.catalog_ids[k])})
               IN  total > 0 =>
                     Cardinality(Accepted(invites', posts)) = total - 1
C20_InviteFailureIsSwallowed == [][C20_Step]_vars
\* after the invite of the first peer failed at the edge, the second peer of
\* the same run has been invited
C20_Witness ==
  /\ lastOp = "request:peers"
  /\ Len(invites) = 2
  /\ invites[1].status = "failed" /\ invites[1].peer_id = "p1"
  /\ invites[2].status = "202" /\ invites[2].peer_id = "p2"
  /\ issued[2].claims.request_id = issued[1].claims.request_id

\* C21: a ledger error raised by add_pending_request inside
\* handle_screenshot_request, or by get_pending_requests inside
\* handle_peer_available, leaves the handler as an exception, nothing is
\* retried, and after the failing call the handler mints no token and sends
\* no invite: the failed request handler changes nothing at all, the failed
\* peer handler has served only the catalog_ids before the failing one.
C21_Step ==
  /\ \A c \in Catalogs, r \in RequestIds :
       HandleScreenshotRequest(ScreenshotRequest(c, r, now, NoTime), "down",
                               [status |-> "200", peers |-> <<>>], "202")
         => /\ lastOp' = "request:raised"
            /\ ledger' = ledger /\ ledgerTtl' = ledgerTtl
            /\ issued' = issued /\ invites' = invites
  /\ \A peer \in PeerOffers, mode \in EdgeModes :
       \A failAt \in 1..Len(peer.catalog_ids) :
         HandlePeerAvailable(peer, failAt, mode)
           => /\ lastOp' = "peer_available:raised"
              /\ ledger' = ledger /\ ledgerTtl' = ledgerTtl
              /\ \A k \in (Len(issued) + 1)..Len(issued') :
                   /\ issued'[k].claims.peer_id = peer.peer_id
                   /\ \E i \in 1..(failAt - 1) :
                        /\ issued'[k].claims.catalog_id = peer.catalog_ids[i]
                        /\ issued'[k].claims.request_id
                             \in Stored(ledger, peer.catalog_ids[i])
              /\ \A k \in (Len(invites) + 1)..Len(invites') :
                   \E i \in 1..(failAt - 1) :
                     invites'[k].catalog_id = peer.catalog_ids[i]

C21_LedgerErrorStopsHandler == [][C21_Step]_vars

\* a peer offering two catalogs with waiting requests, the ledger failing on
\* the second: the first catalog was served, the second was not
C21_Witness ==
  /\ lastOp = "peer_available:raised"
  /\ Len(issued) = 1
  /\ issued[1].claims.catalog_id = "c2"
  /\ Stored(ledger, "c1") # {}

\* C22: a request that no peer redeems in time ends silently: the step in
\* which its ledger entry expires publishes nothing, and a
\* screenshots-completed event is published only by the last step of a
\* redemption (process_screenshot_upload), for the redeemed token's request.
C22_Step ==
  /\ (\E c \in Catalogs : \E r \in Stored(ledger, c) :
        /\ now' > now
        /\ ledger'[c][r] = None)
       => published' = published
  /\ published' # published
       => \E u \in Callers :
            /\ callers[u].pc = "uploading"
            /\ callers'[u].pc = "done"
            /\ published' = Append(published,
                 [message |-> publish_screenshots_completed(
                                callers[u].payload[1].catalog_id,
                                callers[u].payload[1].request_id,
                                callers[u].urls),
                  token_id |-> callers[u].payload[1].token_id])

C22_ExpiryPublishesNothing == [][C22_Step]_vars

\* the request was stored, tokens for it went out, a day passed with no
\* redemption: the entry is gone and nothing was published
C22_Witness ==
  /\ lastOp = "request:peers"
  /\ issued # <<>>
  /\ now >= PendingRequestTtlHours * 60
  /\ ledger = EmptyLedger
  /\ published = <<>>

\* C23: every request stored by add_pending_request has expires_at after
\* created_at; an add without expires_at stores created_at plus
\* pending_request_ttl_hours, and the bucket then lives for the time that
\* remains until that instant.
C23_State ==
  \A c \in Catalogs : \A r \in Stored(ledger, c) :
    parse_request(ledger[c][r]).expires_at > parse_request(ledger[c][r]).created_at
C23_Step ==
  \A request \in RequestMessages(now) :
    (LedgerAdd(request) /\ request.expires_at = NoTime /\ lastOp' = "ledger:stored")
      => /\ parse_request(ledger'[request.catalog_id][request.request_id]).expires_at
              = request.created_at + PendingRequestTtlHours * 60
         /\ ledgerTtl'[request.catalog_id] - now
              = request.created_at + PendingRequestTtlHours * 60 - now

C23_ExpiresAfterCreated == [](C23_State) /\ [][C23_Step]_vars

\* C24: process_screenshot_upload starts only for an upload whose bearer
\* token validate_token accepted and whose URL catalog_id is the token's;
\* an upload turned away (no Bearer prefix, invalid, expired or blacklisted
\* token, other catalog) leaves blacklist and ledger as they were and
\* publishes nothing.
C24_State ==
  \A u \in Callers :
    /\ callers[u].pc = "rejected" =>
         callers[u].payload = None /\ callers[u].urls = <<>>
    /\ callers[u].pc \in {"validated", "uploading", "done"} =>
         /\ callers[u].payload # None
         /\ callers[u].payload[1].token_id \in 1..Len(issued)
         /\ issued[callers[u].payload[1].token_id].claims = callers[u].payload[1]
C24_Step ==
  /\ \A u \in Callers :
       (callers'[u].pc \in {"validated", "uploading"} /\ callers'[u] # callers[u]) =>
         \/ callers[u].pc = "validated"
         \/ callers[u].pc = "uploading"
         \/ /\ callers[u].pc = "idle"
            /\ callers'[u].pc = "validated"
            /\ \E token \in Presentable :
                 /\ validate_token(token, blacklist, now) = callers'[u].payload
                 /\ callers'[u].payload # None
  /\ \A u \in {"u1"}, bearer \in BOOLEAN, token \in Presentable,
        catalog_id \in Catalogs, n \in {1} :
       (callers'[u].pc = "validated" /\ callers[u].pc = "idle"
          /\ RouteValidate(u, bearer, token, catalog_id, n)
          /\ callers'[u].pc = "validated")
         => /\ bearer
            /\ validate_token(token, blacklist, now) # None
            /\ catalog_id = validate_token(token, blacklist, now)[1].catalog_id
  /\ \A u \in {"u2"}, bearer \in BOOLEAN, token \in Presentable,
        catalog_id \in Catalogs :
       (callers'[u] # callers[u]
          /\ (RouteReject(u, bearer, token, catalog_id, "type_error")
                \/ RouteReject(u, bearer, token, catalog_id, "claims"))
          /\ (\/ ~bearer
              \/ validate_token(token, blacklist, now) = None
              \/ catalog_id # token.claims.catalog_id))
         => /\ blacklist' = blacklist
            /\ ledger' = ledger /\ ledgerTtl' = ledgerTtl
            /\ published' = published /\ storage' = storage
            /\ callers'[u].pc = "rejected"

C24_OnlyAcceptedUploadsProcessed == [](C24_State) /\ [][C24_Step]_vars

\* a token was redeemed and presented again, and the second upload was
\* turned away with the completion of the first still the only one
C24_Witness ==
  /\ callers["u1"].pc = "done"
  /\ callers["u2"].pc = "rejected"
  /\ callers["u2"].resp # "401 Invalid authorization header"
  /\ callers["u2"].resp # "400 Catalog ID in URL does not match token"
  /\ Len(published) = 1
  /\ \E k \in 1..Len(issued) : get_blacklist_reason(blacklist, k) = Some(ALREADY_USED)

\* C25: an upload whose bearer token the token service rejects is answered
\* by the token's blacklist reason: 403 "Token has already been used" for
\* ALREADY_USED, 403 "Screenshots already uploaded" for OTHER_PEER_UPLOADED,
\* 401 "Invalid or expired token" when the token has no blacklist reason;
\* a header without the "Bearer " prefix is answered 401 before
\* validate_token is called.
C25_Step ==
  \A u \in {"u2"}, token \in Presentable, catalog_id \in Catalogs,
     decode \in UnverifiedDecodes :
    /\ (callers'[u] # callers[u]
          /\ RouteReject(u, FALSE, token, catalog_id, decode))
         => callers'[u].resp = "401 Invalid authorization header"
    /\ (callers'[u] # callers[u]
          /\ RouteReject(u, TRUE, token, catalog_id, decode)
          /\ token.wellformed
          /\ validate_token(token, blacklist, now) = None)
         => callers'[u].resp =
              LET reason == get_blacklist_reason(blacklist, token.claims.token_id)
              IN  IF reason = Some(ALREADY_USED)
                  THEN "403 Token has already been used"
                  ELSE IF reason = Some(OTHER_PEER_UPLOADED)
                  THEN "403 Screenshots already uploaded"
                  ELSE "401 Invalid or expired token"

C25_ReasonSpecificRejection == [][C25_Step]_vars

\* C26: create_token sets exp to the time of issue plus token_expire_minutes,
\* and validate_token accepts an unblacklisted, correctly signed token at
\* every time before its exp and rejects it at every time after its exp.
C26_State ==
  \A k \in 1..Len(issued) :
    ~redis_exists(blacklist, k) =>
      /\ now < issued[k].claims.exp =>
           validate_token(issued[k], blacklist, now) = Some(issued[k].claims)
      /\ now > issued[k].claims.exp =>
           validate_token(issued[k], blacklist, now) = None
C26_Step ==
  \A p \in Peers :
    TokenCreate(p, "c1", "r1") =>
      issued'[Len(issued')].claims.exp = now + TokenExpireMinutes

C26_ExpIsIssuePlusWindow == [](C26_State) /\ [][C26_Step]_vars

\* C27: every create_token call returns a token_id that no token issued
\* before carries, also when it is called again with the same peer_id,
\* catalog_id and request_id; so blacklisting one token leaves the validity
\* of every other token as it was.
C27_State ==
  \A i \in 1..Len(issued) : \A j \in 1..Len(issued) :
    i # j => issued[i].claims.token_id # issued[j].claims.token_id
C27_Step ==
  /\ \A p \in Peers :
       TokenCreate(p, "c1", "r1") =>
         \A j \in 1..Len(issued) :
           issued'[Len(issued')].claims.token_id # issued[j].claims.token_id
  /\ \A k \in 1..Len(issued), reason \in TokenBlacklistReason :
       TokenBlacklist(k, reason, BlacklistTtlHours) =>
         \A j \in 1..Len(issued) :
           issued[j].claims.token_id # issued[k].claims.token_id =>
             validate_token(issued[j], blacklist', now) =
               validate_token(issued[j], blacklist, now)

C27_TokenIdsAreDistinct == [](C27_State) /\ [][C27_Step]_vars

\* two tokens for the same peer, catalog and request: one blacklisted, the
\* other still accepted
C27_Witness ==
  /\ Len(issued) = 2
  /\ issued[1].claims.peer_id = issued[2].claims.peer_id
  /\ issued[1].claims.request_id = issued[2].claims.request_id
  /\ redis_exists(blacklist, issued[1].claims.token_id)
  /\ validate_token(issued[2], blacklist, now) = Some(issued[2].claims)

\* C28: concurrent add_pending_request calls for one catalog are atomic per
\* catalog key: however their entry writes and expiry writes interleave,
\* once both calls have returned the bucket holds both entries and its
\* expiry is the larger of the two remaining times to live.
C28_ConcurrentAddsAreAtomic ==
  \A i \in Instances : \A j \in Instances \ {i} :
    (/\ adds[i].pc = "done" /\ adds[j].pc = "done"
     /\ adds[i].ttl_seconds > 0 /\ adds[j].ttl_seconds > 0
     /\ adds[i].request[1].catalog_id = adds[j].request[1].catalog_id
     /\ adds[i].request[1].request_id # adds[j].request[1].request_id)
      => LET c == adds[i].request[1].catalog_id
         IN  /\ ledger[c][adds[i].request[1].request_id]
                  = model_dump_json(adds[i].request[1])
             /\ ledger[c][adds[j].request[1].request_id]
                  = model_dump_json(adds[j].request[1])
             /\ ledgerTtl[c] - now >= adds[i].ttl_seconds
             /\ ledgerTtl[c] - now >= adds[j].ttl_seconds

\* C29: when every file upload fails, or no file is supplied,
\* process_screenshot_upload still blacklists the token as ALREADY_USED,
\* removes the ledger entry, publishes a completion with an empty URL list
\* and returns an empty list, not an error.
C29_Step ==
  \A u \in {"u1"}, reply \in DirectoryReplies("c1") :
    (callers[u].pc = "uploading" /\ callers'[u].pc = "done"
       /\ callers[u].urls = <<>>
       /\ ProcessFinish(u, reply)) =>
      LET token_payload == callers[u].payload[1]
      IN  /\ callers'[u].resp = "200"
          /\ callers'[u].urls = <<>>
          /\ get_blacklist_reason(blacklist', token_payload.token_id)
               = Some(ALREADY_USED)
          /\ ledger'[token_payload.catalog_id][token_payload.request_id] = None
          /\ published' = Append(published,
               [message |-> [catalog_id |-> token_payload.catalog_id,
                             request_id |-> token_payload.request_id,
                             screenshot_urls |-> <<>>,
                             status |-> "completed"],
                token_id |-> token_payload.token_id])

C29_NoUrlStillCompletes == [][C29_Step]_vars

\* an upload of MaxFiles files, none of which was stored with a URL, has
\* returned the empty list and its empty completion is published
C29_Witness ==
  /\ callers["u1"].pc = "done"
  /\ callers["u1"].resp = "200"
  /\ Len(callers["u1"].files) = MaxFiles
  /\ callers["u1"].urls = <<>>
  /\ Len(published) = 1
  /\ published[1].message.screenshot_urls = <<>>
  /\ ledger = EmptyLedger

\* C30: start_consuming called while the service is running does nothing:
\* no consumer is made, nothing is subscribed, no thread is started; called
\* while it is not running it sets running, makes one consumer subscribed to
\* exactly the screenshots-requested and the peer-available topic, and
\* starts one daemon thread that runs the consume loop with the handlers.
C30_Step ==
  \A handlers \in Handlers :
    StartConsuming(handlers) =>
      IF kafka.running
      THEN kafka' = kafka
      ELSE /\ kafka'.running
           /\ kafka'.consumers = Append(kafka.consumers,
                [subscribed |-> {screenshots_requested_topic,
                                 peer_available_topic},
                 closed |-> 0])
           /\ kafka'.consumer = Len(kafka'.consumers)
           /\ kafka'.threads = Append(kafka.threads,
                [target |-> "_consume_loop", args |-> handlers,
                 daemon |-> TRUE, alive |-> TRUE, msg |-> ""])
           /\ kafka'.consumer_thread = Len(kafka'.threads)

C30_StartIsGuardedByRunning == [][C30_Step]_vars

\* started, called again while running, stopped and started anew: two
\* consumers and two threads in all
C30_Witness ==
  /\ lastOp = "start:running"
  /\ kafka.running
  /\ Len(kafka.consumers) = 2
  /\ Len(kafka.threads) = 2
  /\ kafka.consumer_thread = 2

\* C31: whenever the consume loop exits, because stop_consuming cleared the
\* running flag or because polling raised KafkaException, the consumer is
\* closed exactly once; and after stop_consuming the loop eventually exits,
\* once the message it is handling, if any, has been handled.
C31_State ==
  \A t \in 1..Len(kafka.threads) :
    kafka.consumers[t].closed = IF kafka.threads[t].alive THEN 0 ELSE 1
C31_Step ==
  \A t \in 1..Len(kafka.threads), cause \in {"stopped", "kafka_exception"} :
    LoopExit(t, cause) =>
      /\ ~kafka'.threads[t].alive
      /\ kafka.threads[t].msg = ""
      /\ \A c \in 1..Len(kafka.consumers) :
           kafka'.consumers[c].closed =
             kafka.consumers[c].closed + (IF c = t THEN 1 ELSE 0)

C32_Step ==
  \A t \in 1..Len(kafka.threads) :
    /\ \A m \in MessageKinds :
         (kafka'.polled # kafka.polled /\ LoopPoll(t, m)) =>
           /\ kafka'.threads[t].alive
           /\ kafka'.calls = kafka.calls
           /\ m \in {"none", "partition_eof", "error"} =>
                kafka'.threads[t].msg = ""
           /\ m \in {"requested", "peer_available"} =>
                kafka'.threads[t].msg = m
    /\ \A outcome \in {"returns", "raises"} :
         (kafka.threads[t].msg # "" /\ LoopHandle(t, outcome)) =>
           /\ kafka'.threads[t].alive
           /\ kafka'.threads[t].msg = ""
           /\ kafka'.calls =
                IF kafka.threads[t].msg = "requested"
                THEN Append(kafka.calls, kafka.threads[t].args[1])
                ELSE IF kafka.threads[t].msg = "peer_available"
                THEN Append(kafka.calls, kafka.threads[t].args[2])
                ELSE kafka.calls

C32_BadMessageDoesNotStopLoop == [][C32_Step]_vars

\* a message ended in a logged error, and the loop then dispatched the next
\* one to its handler
C32_Witness ==
  /\ lastOp = "loop:dispatched"
  /\ kafka.errors = 1
  /\ kafka.polled = 2
  /\ Len(kafka.calls) >= 1
  /\ kafka.running

\* C33: a screenshots-completed event is published for (catalog_id,
\* request_id) only if the ledger held a pending entry for the pair when the
\* redemption began; redeeming a token whose request is already fulfilled,
\* has expired or never existed publishes nothing.  Uploads run one after
\* the other here, so no entry is retired while a redemption is under way:
\* an entry pending when it began is still pending when it publishes.
C33_Step ==
  \A u \in Callers :
    (callers[u].pc = "uploading" /\ callers'[u].pc = "done"
       /\ published' # published)
      => ledger[callers[u].payload[1].catalog_id]
               [callers[u].payload[1].request_id] # None

C33_PublishedOnlyIfPending == [][C33_Step]_vars

\* C34: FULFILLED is terminal: once a completion has been published for
\* (catalog_id, request_id), no later event, a peer-available event or a
\* redelivered copy of the request event, re-creates its ledger entry, mints
\* a new token for it or leads to a second completion for it.
C34_Step ==
  \A i \in 1..Len(published) :
    LET c == published[i].message.catalog_id
        r == published[i].message.request_id
    IN  /\ ledger'[c][r] = None
        /\ \A k \in (Len(issued) + 1)..Len(issued') :
             ~(issued'[k].claims.catalog_id = c /\ issued'[k].claims.request_id = r)
        /\ \A j \in (Len(published) + 1)..Len(published') :
             ~(published'[j].message.catalog_id = c
                 /\ published'[j].message.request_id = r)

C34_FulfilledIsTerminal == [][C34_Step]_vars

\* C35: whenever process_screenshot_upload removes the ledger entry of
\* (catalog_id, request_id), a screenshots-completed event for the pair is
\* published: a failing publish step never leaves a request retired (entry
\* removed, token blacklisted) with no completion emitted.
C35_Step ==
  \A u \in Callers :
    (callers[u].pc = "uploading" /\ callers'[u].pc = "done") =>
      LET c == callers[u].payload[1].catalog_id
          r == callers[u].payload[1].request_id
      IN  (ledger[c][r] # None /\ ledger'[c][r] = None) =>
            \E j \in (Len(published) + 1)..Len(published') :
              /\ published'[j].message.catalog_id = c
              /\ published'[j].message.request_id = r

C35_RetiredMeansPublished == [][C35_Step]_vars

\* C36: for each (peer_id, catalog_id, request_id) at most one redemption
\* succeeds: also when request or peer-available events are delivered more
\* than once, one peer never holds two tokens for the same request that can
\* both be redeemed.
C36_OneRedeemableTokenPerPeerAndRequest ==
  \A i \in 1..Len(issued) : \A j \in 1..Len(issued) :
    (/\ i # j
     /\ issued[i].claims.peer_id = issued[j].claims.peer_id
     /\ issued[i].claims.catalog_id = issued[j].claims.catalog_id
     /\ issued[i].claims.request_id = issued[j].claims.request_id)
      => /\ ~(/\ validate_token(issued[i], blacklist, now) # None
              /\ validate_token(issued[j], blacklist, now) # None)
         /\ ~(\E a \in 1..Len(published) : \E b \in 1..Len(published) :
                published[a].token_id = i /\ published[b].token_id = j)

\* C37: handle_peer_available never mints a token or sends an invite for a
\* request whose own expires_at has passed, also when a later add for the
\* same catalog has carried the bucket's expiry beyond that expires_at.
C37_Step ==
  \A p \in Peers :
    (Len(issued') > Len(issued)
       /\ HandlePeerAvailable(PeerWithMedia(p, "e1", <<"c1">>), 0, "202")) =>
      /\ \A k \in (Len(issued) + 1)..Len(issued') :
           LET c == issued'[k].claims.catalog_id
               r == issued'[k].claims.request_id
           IN  /\ ledger[c][r] # None
               /\ parse_request(ledger[c][r]).expires_at > now
      /\ \A k \in (Len(invites) + 1)..Len(invites') :
           \E r \in RequestIds :
             /\ ledger[invites'[k].catalog_id][r] # None
             /\ parse_request(ledger[invites'[k].catalog_id][r]).expires_at > now

C37_NoInviteForExpiredRequest == [][C37_Step]_vars

\* C38: in every reachable state every ledger bucket that holds an entry
\* has a finite expiry, also when add_pending_request is interrupted or the
\* store fails between writing the entry and setting the bucket's expiry
\* (a bucket is looked at when no add for its catalog is between its two
\* commands): no pending request stays in the ledger for ever.
C38_EveryBucketExpires ==
  \A c \in Catalogs :
    (/\ ledger[c] # NoHash
     /\ \A i \in Instances :
          ~(adds[i].pc = "hset" /\ adds[i].request[1].catalog_id = c))
      => ledgerTtl[c] # NoTime

\* C39: across any sequence of start_consuming and stop_consuming calls at
\* most one consume loop is polling the consumer at a time, also when a
\* start follows a stop whose join timed out on a loop that is still
\* running: no two live loops are at the poll of a running service.
C39_AtMostOneLoopPolls ==
  Cardinality({ t \in 1..Len(kafka.threads) :
                  /\ kafka.threads[t].alive
                  /\ kafka.threads[t].msg = ""
                  /\ kafka.running }) <= 1

====
